---- MODULE Spec2Model ----
(***************************************************************************)
(* Model of sainte_lague::distribute (src/src/lib.rs).                     *)
(*                                                                         *)
(* Numbers.  votes are f64.  A vote is modelled as an integer n together   *)
(* with the scale of the whole vote vector:                                *)
(*   scale = "unit"       the vote is the f64 n * 1.0;                     *)
(*   scale = "subnormal"  the vote is the f64 n * 2^-1074 (n times the     *)
(*                        smallest positive f64, 5e-324).                  *)
(* A quotient is the f64 v / d with d = k - 0.5, written here as the pair  *)
(* <<num, den>> of the rational it is equal to.                            *)
(*   unit:      v / d is the f64 nearest to 2n/(2k-1).  For the small n    *)
(*              and k of this model two different rationals 2n/(2k-1) are  *)
(*              far more than one f64 spacing apart and equal rationals    *)
(*              round to the same f64, so f64 comparison and equality      *)
(*              coincide with comparison and equality of the rationals.    *)
(*   subnormal: every f64 below 2^-1021 is an integer multiple of 2^-1074, *)
(*              so v / d is 2n/(2k-1) rounded to the nearest integer, ties *)
(*              to even (IEEE 754 round-to-nearest), in units of 2^-1074.  *)
(* NaN and infinite votes are not modelled.                                *)
(***************************************************************************)
EXTENDS Integers, Sequences, FiniteSets

MaxParties == 2
MaxVote == 3
MaxSeats == 4

Scales == {"unit", "subnormal"}
VoteValues == (0 - 1)..MaxVote
VoteSeqs == UNION {[1..n -> VoteValues] : n \in 0..MaxParties}
SeatCounts == 0..MaxSeats

VARIABLES votes, scale, pc, seat_count, draw_on_tie, party_quotients,
          last_winning_quotient, winners, possible_winners, seats_too_many,
          rng_used, result, prev

vars == <<votes, scale, pc, seat_count, draw_on_tie, party_quotients,
          last_winning_quotient, winners, possible_winners, seats_too_many,
          rng_used, result, prev>>

----------------------------------------------------------------------------
(* f64 arithmetic on the modelled values *)

RECURSIVE Gcd(_, _)
Gcd(a, b) == IF b = 0 THEN a ELSE Gcd(b, a % b)

Abs(x) == IF x < 0 THEN 0 - x ELSE x

Max(a, b) == IF a >= b THEN a ELSE b

\* the rational a/b (b > 0) in lowest terms
Rational(a, b) == LET g == Gcd(Abs(a), b) IN <<a \div g, b \div g>>

\* a/b (a >= 0, b > 0) rounded to the nearest integer, ties to even
RoundNearestEven(a, b) ==
    LET q == a \div b
        r == a % b
    IN  IF 2 * r < b THEN q
        ELSE IF 2 * r > b THEN q + 1
        ELSE IF q % 2 = 0 THEN q ELSE q + 1

Zero == <<0, 1>>

\* f64 `<`, `>` and `==` on quotients
QLess(a, b) == a[1] * b[2] < b[1] * a[2]
QGreater(a, b) == QLess(b, a)
QEqual(a, b) == a[1] * b[2] = b[1] * a[2]

\* twice the divisor (d as f64) - 0.5 of the d-th seat: 1, 3, 5, ...
\* variants: divisors 1.5, 2.5, ... and divisors 1, 2, 3, ...
DivisorPlusHalf(d) == 2 * d + 1
DivisorWhole(d) == 2 * d
Divisor(d) == 2 * d - 1

\* the f64 v / d, for a vote n (in units of the scale) and twice the divisor
Div(sc, n, d2) ==
    IF sc = "unit" THEN Rational(2 * n, d2)
    ELSE IF n >= 0 THEN <<RoundNearestEven(2 * n, d2), 1>>
    ELSE <<0 - RoundNearestEven(2 * (0 - n), d2), 1>>

RECURSIVE SumSeq(_)
SumSeq(s) == IF s = <<>> THEN 0 ELSE Head(s) + SumSeq(Tail(s))

----------------------------------------------------------------------------
(* distribute, step by step *)

\* variant: the vote sum is checked before the signs
ValidateSumFirst(vs, sc) ==
    IF sc < 1 THEN "InvalidSeatCount"
    ELSE IF SumSeq(vs) = 0 THEN "NoVotes"
    ELSE IF \E i \in 1..Len(vs) : vs[i] < 0 THEN "NegativeVotes"
    ELSE "Valid"

\* the prerequisites, in the order the code checks them
Validate(vs, sc) ==
    IF sc < 1 THEN "InvalidSeatCount"
    ELSE IF \E i \in 1..Len(vs) : vs[i] < 0 THEN "NegativeVotes"
    ELSE IF SumSeq(vs) = 0 THEN "NoVotes"
    ELSE "Valid"

\* variant: the party of an entry is taken from the wrong index
GeneratePartyQuotientsInterleaved(sca, vs, sc) ==
    [j \in 1..(Len(vs) * sc) |->
        [party |-> ((j - 1) % Len(vs)) + 1,
         quotient |-> Div(sca, vs[((j - 1) \div sc) + 1], Divisor(((j - 1) % sc) + 1))]]

\* votes.iter().enumerate().flat_map(divisors.map(PartyQuotient{..})).collect()
\* party indices are 1-based here (0-based in the code)
GeneratePartyQuotients(sca, vs, sc) ==
    [j \in 1..(Len(vs) * sc) |->
        [party |-> ((j - 1) \div sc) + 1,
         quotient |-> Div(sca, vs[((j - 1) \div sc) + 1], Divisor(((j - 1) % sc) + 1))]]

\* position of x in a descending run: after every element that is not smaller
RECURSIVE InsertDesc(_, _)
InsertDesc(s, x) ==
    IF s = <<>> THEN <<x>>
    ELSE IF QLess(Head(s).quotient, x.quotient) THEN <<x>> \o s
    ELSE <<Head(s)>> \o InsertDesc(Tail(s), x)

\* slice::sort_by(|a, b| b.quotient.partial_cmp(&a.quotient)): stable, descending
RECURSIVE SortFrom(_, _, _)
SortFrom(s, i, acc) ==
    IF i > Len(s) THEN acc ELSE SortFrom(s, i + 1, InsertDesc(acc, s[i]))

SortByQuotientDesc(s) == SortFrom(s, 1, <<>>)

\* variant: .get(seat_count)
LastWinningQuotientNext(pq, sc) == IF Len(pq) > sc THEN pq[sc + 1].quotient ELSE Zero
\* party_quotients.get(seat_count - 1).map(|pq| pq.quotient).unwrap_or(0.0)
LastWinningQuotient(pq, sc) == IF Len(pq) >= sc THEN pq[sc].quotient ELSE Zero

StrictWinners(pq, t) == SelectSeq(pq, LAMBDA e : QGreater(e.quotient, t))

PossibleWinners(pq, t) == SelectSeq(pq, LAMBDA e : QEqual(e.quotient, t))

\* variant: one seat too few is budgeted
SeatsTooManyOffByOne(w, pw, sc) == Len(w) + Len(pw) - sc + 1
SeatsTooMany(w, pw, sc) == Len(w) + Len(pw) - sc

\* variant: every possible winner is drawn
NumberOfDrawsAll(pw, tm) == Len(pw)
NumberOfDraws(pw, tm) == Len(pw) - tm

\* every selection of `amount` distinct elements of s (in the order of s; the
\* order of the drawn elements is random in the code and is only tallied)
RECURSIVE ChooseMultiple(_, _)
ChooseMultiple(s, amount) ==
    IF amount = 0 \/ s = <<>> THEN {<<>>}
    ELSE IF Len(s) <= amount THEN {s}
    ELSE {<<Head(s)>> \o r : r \in ChooseMultiple(Tail(s), amount - 1)}
         \cup ChooseMultiple(Tail(s), amount)

\* what thread_rng lets choose_multiple return
DrawnWinners(pw, amount) == ChooseMultiple(pw, amount)

\* let mut distribution = vec![0; votes.len()]; distribution[pq.party] += 1
Tally(w, n) == [i \in 1..n |-> Cardinality({j \in 1..Len(w) : w[j].party = i})]

NoResult == [kind |-> "None", err |-> "", distribution |-> <<>>]
Err(e) == [kind |-> "Err", err |-> e, distribution |-> <<>>]
Ok(d) == [kind |-> "Ok", err |-> "", distribution |-> d]

NoCall == [called |-> FALSE, seat_count |-> 0, draw_on_tie |-> FALSE,
           party_quotients |-> <<>>, seats_too_many |-> 0, rng_used |-> FALSE,
           result |-> NoResult]

----------------------------------------------------------------------------

Init ==
    /\ votes \in VoteSeqs
    /\ scale \in Scales
    /\ pc = "idle"
    /\ seat_count = 0
    /\ draw_on_tie = FALSE
    /\ party_quotients = <<>>
    /\ last_winning_quotient = Zero
    /\ winners = <<>>
    /\ possible_winners = <<>>
    /\ seats_too_many = 0
    /\ rng_used = FALSE
    /\ result = NoResult
    /\ prev = NoCall

\* a caller passes its votes with a seat count and a tie policy
Call(sc, dot) ==
    /\ pc \in {"idle", "done"}
    /\ pc' = "called"
    /\ seat_count' = sc
    /\ draw_on_tie' = dot
    /\ prev' = IF pc = "done"
               THEN [called |-> TRUE, seat_count |-> seat_count,
                     draw_on_tie |-> draw_on_tie,
                     party_quotients |-> party_quotients,
                     seats_too_many |-> seats_too_many, rng_used |-> rng_used,
                     result |-> result]
               ELSE NoCall
    /\ party_quotients' = <<>>
    /\ last_winning_quotient' = Zero
    /\ winners' = <<>>
    /\ possible_winners' = <<>>
    /\ seats_too_many' = 0
    /\ rng_used' = FALSE
    /\ result' = NoResult
    /\ UNCHANGED <<votes, scale>>

\* the body of distribute
Distribute ==
    /\ pc = "called"
    /\ pc' = "done"
    /\ UNCHANGED <<votes, scale, seat_count, draw_on_tie, prev>>
    /\ IF Validate(votes, seat_count) # "Valid"
       THEN /\ result' = Err(Validate(votes, seat_count))
            /\ UNCHANGED <<party_quotients, last_winning_quotient, winners,
                           possible_winners, seats_too_many, rng_used>>
       ELSE LET pq == SortByQuotientDesc(
                          GeneratePartyQuotients(scale, votes, seat_count))
                t == LastWinningQuotient(pq, seat_count)
                w == StrictWinners(pq, t)
                pw == PossibleWinners(pq, t)
                tm == SeatsTooMany(w, pw, seat_count)
            IN  /\ party_quotients' = pq
                /\ last_winning_quotient' = t
                /\ possible_winners' = pw
                /\ seats_too_many' = tm
                /\ IF tm > 0
                   THEN IF ~draw_on_tie
                        THEN /\ result' = Err("Tied")
                             /\ winners' = w
                             /\ rng_used' = FALSE
                        ELSE \E dw \in DrawnWinners(pw, Max(NumberOfDraws(pw, tm), 0)) :
                                /\ winners' = w \o dw
                                /\ rng_used' = TRUE
                                /\ result' = Ok(Tally(w \o dw, Len(votes)))
                   ELSE /\ winners' = w \o pw
                        /\ rng_used' = FALSE
                        /\ result' = Ok(Tally(w \o pw, Len(votes)))

Next ==
    \/ \E sc \in SeatCounts, dot \in BOOLEAN : Call(sc, dot)
    \/ Distribute

Spec == Init /\ [][Next]_vars

----------------------------------------------------------------------------
(* Properties *)

Done == pc = "done"

IsOk == result.kind = "Ok"

\* the call's input passes the three prerequisites
ValidInput ==
    /\ seat_count >= 1
    /\ \A i \in 1..Len(votes) : votes[i] >= 0
    /\ SumSeq(votes) > 0

\* the quotient ranked seat_count-th equals the one ranked (seat_count+1)-th
TieAtCutoff ==
    /\ Len(party_quotients) > seat_count
    /\ QEqual(party_quotients[seat_count].quotient,
              party_quotients[seat_count + 1].quotient)

\* positions of the sorted pool strictly above, and exactly at, the threshold
AboveThreshold ==
    {j \in 1..Len(party_quotients) :
        QGreater(party_quotients[j].quotient, party_quotients[seat_count].quotient)}
AtThreshold ==
    {j \in 1..Len(party_quotients) :
        QEqual(party_quotients[j].quotient, party_quotients[seat_count].quotient)}

\* seats of each party when the candidates at the positions S win
SeatsOf(S) ==
    [i \in 1..Len(votes) |-> Cardinality({j \in S : party_quotients[j].party = i})]

\* C1: a successful result has one entry per vote and sums to seat_count,
\* with or without a tie draw.
C1_Conservation ==
    (Done /\ IsOk) =>
        /\ Len(result.distribution) = Len(votes)
        /\ SumSeq(result.distribution) = seat_count

C1_Witness ==
    /\ Done /\ IsOk /\ rng_used
    /\ Len(votes) = 2 /\ seat_count = 3
    /\ SumSeq(result.distribution) = 3

\* C2: the first failing prerequisite decides the error: seat count, then
\* negative votes, then empty or zero-sum votes; valid input gets none of them.
C2_ValidationOrder ==
    Done =>
        /\ seat_count < 1 => result = Err("InvalidSeatCount")
        /\ (seat_count >= 1 /\ \E i \in 1..Len(votes) : votes[i] < 0)
              => result = Err("NegativeVotes")
        /\ (/\ seat_count >= 1
            /\ \A i \in 1..Len(votes) : votes[i] >= 0
            /\ (Len(votes) = 0 \/ SumSeq(votes) = 0))
              => result = Err("NoVotes")
        /\ ValidInput
              => result.err \notin {"InvalidSeatCount", "NegativeVotes", "NoVotes"}

C2_Witness ==
    /\ Done
    /\ seat_count >= 1
    /\ \E i \in 1..Len(votes) : votes[i] < 0
    /\ SumSeq(votes) = 0
    /\ Len(votes) = 2
    /\ result = Err("NegativeVotes")

\* C3: for valid input the result is Err(Tied) exactly when draw_on_tie is
\* false and the seat_count-th and (seat_count+1)-th ranked quotients are
\* equal; with draw_on_tie the call succeeds.
C3_TiedIffCutoffTie ==
    (Done /\ ValidInput) =>
        /\ result = Err("Tied") <=> (~draw_on_tie /\ TieAtCutoff)
        /\ draw_on_tie => IsOk
        /\ result.kind = "Err" => result = Err("Tied")

\* equal quotients that exactly fill the seats: no Tied
C3_Witness ==
    /\ Done /\ ValidInput /\ ~draw_on_tie
    /\ seat_count >= 2
    /\ QEqual(party_quotients[seat_count - 1].quotient,
              party_quotients[seat_count].quotient)
    /\ ~TieAtCutoff
    /\ IsOk

\* the results the claim allows after a draw: the candidates above the
\* threshold and any subset of the right size of those at the threshold
DrawResultsClaimed ==
    {SeatsOf(AboveThreshold \cup S) :
        S \in {T \in SUBSET AtThreshold :
                 Cardinality(T) = seat_count - Cardinality(AboveThreshold)}}

\* the results the draw of this call could have produced
DrawResultsPossible ==
    {Tally(SubSeq(party_quotients, 1, Cardinality(AboveThreshold)) \o dw, Len(votes)) :
        dw \in DrawnWinners(possible_winners,
                            seat_count - Cardinality(AboveThreshold))}

\* C4: after a draw the result is the strictly-greater candidates plus one
\* subset of the threshold-equal candidates of the missing size; every such
\* subset can be drawn and nothing else; a party gains at most one seat from
\* the draw.
C4_DrawOutcomes ==
    (Done /\ ValidInput /\ draw_on_tie /\ TieAtCutoff) =>
        /\ IsOk
        /\ result.distribution \in DrawResultsClaimed
        /\ DrawResultsPossible = DrawResultsClaimed
        /\ \A i \in 1..Len(votes) :
              result.distribution[i] <= SeatsOf(AboveThreshold)[i] + 1

\* C5: a party with zero votes gets zero seats; the threshold of a valid
\* input is strictly positive.
C5_ZeroVotesZeroSeats ==
    /\ (Done /\ IsOk) =>
          \A i \in 1..Len(votes) : votes[i] = 0 => result.distribution[i] = 0
    /\ (Done /\ ValidInput) => QGreater(last_winning_quotient, Zero)

\* C6: without a tie at the cutoff the random source is not consulted and
\* the result depends on votes and seat_count only: an earlier call with the
\* same seat_count, under either tie policy, returned the same result.
C6_DeterministicWithoutTie ==
    (Done /\ ValidInput /\ ~TieAtCutoff) =>
        /\ ~rng_used
        /\ IsOk
        /\ (prev.called /\ prev.seat_count = seat_count) => prev.result = result

C6_Witness ==
    /\ Done /\ ValidInput /\ ~TieAtCutoff
    /\ prev.called /\ prev.seat_count = seat_count
    /\ prev.draw_on_tie /\ ~draw_on_tie
    /\ seat_count >= 2
    /\ QEqual(party_quotients[seat_count - 1].quotient,
              party_quotients[seat_count].quotient)
    /\ prev.result = result

\* the sequential procedure: from an allocation, every allocation reached by
\* awarding one seat to a party maximising votes / (seats_held + 0.5)
NextAllocations(a) ==
    {[a EXCEPT ![i] = @ + 1] :
        i \in {p \in 1..Len(votes) :
                 \A o \in 1..Len(votes) :
                    votes[p] * (2 * a[o] + 1) >= votes[o] * (2 * a[p] + 1)}}

RECURSIVE Award(_, _)
Award(allocs, n) ==
    IF n = 0 THEN allocs
    ELSE Award(UNION {NextAllocations(a) : a \in allocs}, n - 1)

SequentialResults == Award({[i \in 1..Len(votes) |-> 0]}, seat_count)

\* C7: a result returned with draw_on_tie = false is the result of the
\* sequential highest-quotient procedure, however that procedure orders
\* equal maxima.
C7_SequentialEquivalence ==
    (Done /\ IsOk /\ ~draw_on_tie) => SequentialResults = {result.distribution}

\* two parties share the maximum at an intermediate step
C7_Witness ==
    /\ Done /\ IsOk /\ ~draw_on_tie
    /\ Len(votes) = 2 /\ votes[1] = votes[2] /\ seat_count = 4
    /\ SequentialResults = {result.distribution}

\* q is the f64 votes[i] / (k - 0.5)
IsQuotientOf(q, i, k) ==
    IF scale = "unit"
    THEN q[1] * (2 * k - 1) = 2 * votes[i] * q[2]
    ELSE q[2] = 1 /\ 2 * Abs(q[1] * (2 * k - 1) - 2 * votes[i]) <= 2 * k - 1

\* C8: the pool has parties * seat_count entries, one per party and divisor
\* k - 0.5 (k = 1..seat_count), sorted descending; the threshold is the
\* entry ranked seat_count, which exists.
C8_PoolAndThreshold ==
    (Done /\ ValidInput) =>
        /\ Len(party_quotients) = Len(votes) * seat_count
        /\ \A i \in 1..Len(votes) :
              /\ Cardinality({j \in 1..Len(party_quotients) :
                                party_quotients[j].party = i}) = seat_count
              /\ \A e \in 1..Len(party_quotients) :
                    party_quotients[e].party = i =>
                       Cardinality({j \in 1..Len(party_quotients) :
                            /\ party_quotients[j].party = i
                            /\ party_quotients[j].quotient = party_quotients[e].quotient})
                       = Cardinality({k \in 1..seat_count :
                            IsQuotientOf(party_quotients[e].quotient, i, k)})
        /\ \A j \in 1..(Len(party_quotients) - 1) :
              ~QLess(party_quotients[j].quotient, party_quotients[j + 1].quotient)
        /\ Len(party_quotients) >= seat_count
        /\ last_winning_quotient = party_quotients[seat_count].quotient

C8_Witness ==
    /\ Done /\ ValidInput
    /\ Len(votes) = 2 /\ seat_count = 4
    /\ Len(party_quotients) = 8
    /\ QGreater(last_winning_quotient, Zero)

\* C9: more votes never means fewer seats; equal votes mean seat counts at
\* most one apart, and equal ones when nothing was drawn.
C9_VoteMonotone ==
    (Done /\ IsOk) =>
        \A i, j \in 1..Len(votes) :
            /\ votes[i] > votes[j] => result.distribution[i] >= result.distribution[j]
            /\ votes[i] = votes[j] =>
                  /\ Abs(result.distribution[i] - result.distribution[j]) <= 1
                  /\ ~rng_used => result.distribution[i] = result.distribution[j]

\* C10: if the calls for seat_count = s and s + 1 (same votes, draw_on_tie
\* false) both succeed, no party loses a seat, exactly one party gains one,
\* and the first s ranked candidates are the same.
C10_HouseMonotone ==
    (/\ Done /\ IsOk /\ ~draw_on_tie
     /\ prev.called /\ prev.result.kind = "Ok" /\ ~prev.draw_on_tie
     /\ seat_count = prev.seat_count + 1) =>
        /\ \A i \in 1..Len(votes) :
              result.distribution[i] >= prev.result.distribution[i]
        /\ Cardinality({i \in 1..Len(votes) :
              result.distribution[i] = prev.result.distribution[i] + 1}) = 1
        /\ SubSeq(party_quotients, 1, prev.seat_count)
              = SubSeq(prev.party_quotients, 1, prev.seat_count)

C10_Witness ==
    /\ Done /\ IsOk /\ ~draw_on_tie
    /\ prev.called /\ prev.result.kind = "Ok" /\ ~prev.draw_on_tie
    /\ seat_count = prev.seat_count + 1
    /\ seat_count = 4
    /\ Len(votes) = 2 /\ votes[1] > 0 /\ votes[2] > 0
    /\ result.distribution # prev.result.distribution

====
